---- MODULE Spec2Model ----
(***************************************************************************)
(* Model of p.py: the WAQI air-quality fetch -> parse -> aggregate ->      *)
(* render pipeline (aqi_category_us, safe_get, fetch_waqi_city,            *)
(* parse_city_data, plot_aqi_bar, main).                                   *)
(*                                                                         *)
(* JSON values are tagged records [k |-> kind, v |-> payload]:             *)
(*   null / num / nan / bool / str / list / dict.                          *)
(* Python floats are fixed-point integers in units of 1/Scale; the float   *)
(* not-a-number is the value NaN.  A Python exception leaving an           *)
(* expression is the value Raised.                                         *)
(***************************************************************************)
EXTENDS Integers, Sequences, FiniteSets, TLC

VARIABLES pc, token, idx, summaries, pollutants, fetched, exitCode,
          printed, chart, arg, res

vars == <<pc, token, idx, summaries, pollutants, fetched, exitCode,
          printed, chart, arg, res>>

\* ------------------------------------------------------------------ bounds
\* floats are multiples of 1/Scale
Scale == 2
\* largest AQI (in whole units) fed to the categorizer
MaxAqi == 310
\* largest number of rows of a frame handed to plot_aqi_bar on its own
MaxRows == 3

\* ------------------------------------------------------------- JSON values
None == [k |-> "null", v |-> 0]
NaN == [k |-> "nan", v |-> 0]
Raised == [k |-> "raise", v |-> 0]
Absent == [k |-> "absent", v |-> 0]
Num(n) == [k |-> "num", v |-> n]
Whole(n) == Num(n * Scale)
Str(s) == [k |-> "str", v |-> s]
Bool(b) == [k |-> "bool", v |-> b]
List(s) == [k |-> "list", v |-> s]
\* a JSON object; a key mapped to Absent is not a key of the object
Dict(f) == [k |-> "dict", v |-> [y \in {z \in DOMAIN f : f[z] # Absent} |-> f[y]]]
EmptyDict == [k |-> "dict", v |-> << >>]

\* The integer key 0 of safe_get(data, "attributions", 0, "name").  Keys of
\* a JSON object are strings, so the integer 0 is a key of none of them;
\* it is written as a token no object of the model has as a key.
IntKey0 == "#0"

\* -------------------------------------------------------- Python builtins
\* bool(x): None, 0, "", [], {} and False are falsy
Truthy(x) ==
    CASE x.k = "null" -> FALSE
      [] x.k = "num" -> x.v # 0
      [] x.k = "nan" -> TRUE
      [] x.k = "bool" -> x.v
      [] x.k = "str" -> x.v # ""
      [] x.k = "list" -> Len(x.v) > 0
      [] x.k = "dict" -> DOMAIN x.v # {}
      [] OTHER -> TRUE

\* float(s) for a string: the numerals of the model parse to their value,
\* "nan" parses to not-a-number, anything else raises ValueError
FloatOfStr(s) ==
    CASE s = "42" -> Whole(42)
      [] s = "151" -> Whole(151)
      [] s = "nan" -> NaN
      [] OTHER -> Raised

\* float(x): numbers and booleans convert, strings are parsed, None, lists
\* and dicts raise TypeError
Float(x) ==
    CASE x.k = "num" -> x
      [] x.k = "nan" -> NaN
      [] x.k = "bool" -> IF x.v THEN Whole(1) ELSE Whole(0)
      [] x.k = "str" -> FloatOfStr(x.v)
      [] OTHER -> Raised

\* seq[i] (0-based) on a list; IndexError when out of range
GetItem(x, i) ==
    IF x.k = "list" /\ i + 1 <= Len(x.v) THEN x.v[i + 1] ELSE Raised

\* a <= c for a float a and a whole threshold c; every comparison with
\* not-a-number is false
LeWhole(a, c) == a.k = "num" /\ a.v <= c * Scale

\* pd.notna / pd.isna on a float
notna(a) == a.k = "num"
isna(a) == ~notna(a)

\* int(round(a)): round half to even
Round(a) ==
    LET q == a.v \div Scale
        r == a.v % Scale
    IN  IF 2 * r < Scale THEN q
        ELSE IF 2 * r > Scale THEN q + 1
        ELSE IF q % 2 = 0 THEN q ELSE q + 1

\* ---------------------------------------------------------- aqi_category_us
aqi_category_us_strict(aqi) ==
    IF aqi.k = "num" /\ aqi.v < 50 * Scale THEN "Good"
    ELSE IF aqi.k = "num" /\ aqi.v < 100 * Scale THEN "Moderate"
    ELSE IF aqi.k = "num" /\ aqi.v < 150 * Scale THEN "Unhealthy (Sensitive)"
    ELSE IF aqi.k = "num" /\ aqi.v < 200 * Scale THEN "Unhealthy"
    ELSE IF aqi.k = "num" /\ aqi.v < 300 * Scale THEN "Very Unhealthy"
    ELSE "Hazardous"

aqi_category_us(aqi) ==
    IF LeWhole(aqi, 50) THEN "Good"
    ELSE IF LeWhole(aqi, 100) THEN "Moderate"
    ELSE IF LeWhole(aqi, 150) THEN "Unhealthy (Sensitive)"
    ELSE IF LeWhole(aqi, 200) THEN "Unhealthy"
    ELSE IF LeWhole(aqi, 300) THEN "Very Unhealthy"
    ELSE "Hazardous"

\* ------------------------------------------------------------------ safe_get
RECURSIVE safe_get(_, _)
safe_get(d, keys) ==
    IF keys = << >> THEN d
    ELSE IF d.k # "dict" \/ Head(keys) \notin DOMAIN d.v THEN None
    ELSE safe_get(d.v[Head(keys)], Tail(keys))

\* ------------------------------------------------------------ parse_city_data
PollutantKeys == <<"pm25", "pm10", "o3", "no2", "so2", "co">>

\* the try/except around float(aqi)
aqi_num_of(data) ==
    LET f == Float(safe_get(data, <<"aqi">>))
    IN  IF f = Raised THEN NaN ELSE f

\* the nested helper iaqi_val(key)
iaqi_val_unguarded(iaqi, key) == Float(safe_get(iaqi, <<key, "v">>))

iaqi_val(iaqi, key) ==
    LET f == Float(safe_get(iaqi, <<key, "v">>))
    IN  IF f = Raised THEN None ELSE f

geo_lat(geo) ==
    IF geo.k = "list" /\ Len(geo.v) >= 2 THEN GetItem(geo, 0) ELSE None

geo_lon_short(geo) ==
    IF geo.k = "list" /\ Len(geo.v) >= 1 THEN GetItem(geo, 1) ELSE None

geo_lon(geo) ==
    IF geo.k = "list" /\ Len(geo.v) >= 2 THEN GetItem(geo, 1) ELSE None

category_of_unchecked(aqi_num) == aqi_category_us(aqi_num)

category_of(aqi_num) ==
    IF notna(aqi_num) THEN aqi_category_us(aqi_num) ELSE "Unknown"

station_of(data) ==
    LET station == safe_get(data, <<"attributions", IntKey0, "name">>)
    IN  IF ~Truthy(station) THEN safe_get(data, <<"city", "name">>) ELSE station

parse_summary(label, data) ==
    LET aqi_num == aqi_num_of(data)
        geo == safe_get(data, <<"city", "geo">>)
    IN  [City |-> label,
         AQI |-> aqi_num,
         Category |-> category_of(aqi_num),
         ObservedTime |-> safe_get(data, <<"time", "s">>),
         Station |-> station_of(data),
         ReportedCity |-> safe_get(data, <<"city", "name">>),
         Lat |-> geo_lat(geo),
         Lon |-> geo_lon(geo)]

parse_pollutants(label, data) ==
    LET got == safe_get(data, <<"iaqi">>)
        iaqi == IF Truthy(got) THEN got ELSE EmptyDict
    IN  [City |-> label,
         pm25 |-> iaqi_val(iaqi, "pm25"),
         pm10 |-> iaqi_val(iaqi, "pm10"),
         o3 |-> iaqi_val(iaqi, "o3"),
         no2 |-> iaqi_val(iaqi, "no2"),
         so2 |-> iaqi_val(iaqi, "so2"),
         co |-> iaqi_val(iaqi, "co")]

\* the call as a whole: raised is TRUE when an exception leaves the function
parse_city_data(label, data) ==
    LET s == parse_summary(label, data)
        p == parse_pollutants(label, data)
    IN  [raised |-> \/ s.Lat = Raised
                    \/ s.Lon = Raised
                    \/ \E i \in 1..Len(PollutantKeys) : p[PollutantKeys[i]] = Raised,
         summary |-> s,
         pollutants |-> p]

\* --------------------------------------------------------------- fetch_waqi_city
\* What requests.get and r.json() hand back for one request:
\*   net  - "ok", or the transport fault raised by requests.get
\*   http - the status code of the response
\*   body - the decoded JSON value, or Malformed when r.json() cannot decode
Malformed == [k |-> "malformed", v |-> 0]

Failure(desc) == [ok |-> FALSE, data |-> None, err |-> desc]
Success(d) == [ok |-> TRUE, data |-> d, err |-> ""]

\* ok = FALSE when an exception leaves the function; err is str(e)
fetch_waqi_city(tok, feed_path, resp) ==
    IF resp.net = "timeout" THEN Failure("Read timed out. (read timeout=25)")
    ELSE IF resp.net # "ok" THEN Failure("Max retries exceeded with url")
    ELSE IF 400 <= resp.http /\ resp.http < 600 THEN Failure("Client or Server Error for url")
    ELSE IF resp.body = Malformed THEN Failure("Expecting value: line 1 column 1 (char 0)")
    ELSE IF resp.body.k # "dict" THEN Failure("object has no attribute 'get'")
    ELSE IF safe_get(resp.body, <<"status">>) # Str("ok") THEN Failure("WAQI returned status")
    ELSE IF "data" \notin DOMAIN resp.body.v THEN Failure("'data'")
    ELSE Success(resp.body.v["data"])

\* ------------------------------------------------------------------ plot_aqi_bar
Perms(n) == {p \in [1..n -> 1..n] : \A i, j \in 1..n : p[i] = p[j] => i = j}

\* df.sort_values("AQI", ascending=False): the row orders the sort may
\* return; rows with equal keys come in an order the sort does not fix
sort_values_ascending(df) ==
    {p \in Perms(Len(df)) :
        \A i, j \in 1..Len(df) : i < j =>
            /\ ~(isna(df[p[i]].AQI) /\ notna(df[p[j]].AQI))
            /\ (notna(df[p[i]].AQI) /\ notna(df[p[j]].AQI)
                    => df[p[i]].AQI.v <= df[p[j]].AQI.v)}

sort_values(df) ==
    {p \in Perms(Len(df)) :
        \A i, j \in 1..Len(df) : i < j =>
            /\ ~(isna(df[p[i]].AQI) /\ notna(df[p[j]].AQI))
            /\ (notna(df[p[i]].AQI) /\ notna(df[p[j]].AQI)
                    => df[p[i]].AQI.v >= df[p[j]].AQI.v)}

\* the text drawn over one bar
bar_label(row) ==
    IF isna(row.AQI) THEN [na |-> TRUE, n |-> 0, cat |-> ""]
    ELSE [na |-> FALSE, n |-> Round(row.AQI), cat |-> row.Category]

\* max(350, df2["AQI"].max(skipna=True) + 25), in units of 1/Scale
ylim_top(df) ==
    LET nums == {df[i].AQI.v : i \in {j \in 1..Len(df) : notna(df[j].AQI)}}
        top == IF nums = {} THEN 350 * Scale
               ELSE (CHOOSE m \in nums : \A x \in nums : x <= m) + 25 * Scale
    IN  IF top > 350 * Scale THEN top ELSE 350 * Scale

\* the chart drawn for the frame df with its rows in the order p
plot_aqi_bar(df, p) ==
    [file |-> "aqi_bar.png",
     ylim |-> ylim_top(df),
     bars |-> [i \in 1..Len(df) |->
                 [City |-> df[p[i]].City,
                  height |-> df[p[i]].AQI,
                  label |-> bar_label(df[p[i]])]]]

\* ------------------------------------------------------------ raw responses
\* values of the top-level "aqi" field
AqiVals ==
    {Absent, None, Str("-"), Str("42"), Str("nan"), NaN, Bool(TRUE), List(<< >>),
     Whole(0), Whole(50), Num(50 * Scale + 1), Whole(120), Whole(300), Num(300 * Scale + 1)}

TimeVals ==
    {Absent, Str("now"), Dict([s |-> Str("2024-05-01 10:00:00")]), Dict([s |-> Absent])}

AttrVals ==
    {Absent, List(<< >>), Str("CETESB"),
     List(<<Dict([name |-> Str("CETESB")])>>),
     List(<<Dict([name |-> Str("")])>>),
     List(<<Dict([name |-> Absent])>>),
     List(<<Dict([name |-> Str("CETESB")]), Dict([name |-> Str("EPA")])>>),
     [k |-> "dict", v |-> ("0" :> Dict([name |-> Str("CETESB")]))]}

NameVals == {Absent, None, Str(""), Str("Springfield")}

GeoVals ==
    {Absent, None, Str("ab"), List(<< >>), List(<<Whole(45)>>),
     List(<<Whole(45), Whole(73)>>),
     List(<<Whole(45), Whole(73), Whole(7)>>),
     List(<<None, Whole(73)>>),
     List(<<Whole(45), None>>),
     List(<<None, None>>),
     Dict([lat |-> Whole(45), lon |-> Whole(73)])}

CityVals ==
    {Absent, Str("Springfield")}
        \cup {Dict([name |-> n, geo |-> g]) : n \in NameVals, g \in GeoVals}

\* values of one "iaqi.<key>" entry
IaqiEntryVals == {Absent, Dict([v |-> Whole(12)]), Dict([v |-> Str("-")])}

IaqiOf(f) == Dict([pm25 |-> f[1], pm10 |-> f[2], o3 |-> f[3],
                   no2 |-> f[4], so2 |-> f[5], co |-> f[6]])

IaqiFull == IaqiOf([i \in 1..6 |-> Dict([v |-> Whole(10 + i)])])

IaqiFew ==
    {Absent, None, List(<<Whole(1)>>), IaqiFull,
     Dict([pm25 |-> Whole(12), o3 |-> Dict([v |-> Str("42")]), co |-> Dict([w |-> Whole(3)])]),
     Dict([pm10 |-> Dict([v |-> Str("nan")]), no2 |-> Dict([v |-> NaN]),
           so2 |-> Dict([v |-> None]), co |-> Dict([v |-> Bool(TRUE)])])}

IaqiWide == {IaqiOf(f) : f \in [1..6 -> IaqiEntryVals]}

RawOf(a, t, at, c, i) ==
    Dict([aqi |-> a, time |-> t, attributions |-> at, city |-> c, iaqi |-> i])

FullRaw ==
    RawOf(Whole(120), Dict([s |-> Str("2024-05-01 10:00:00")]),
          List(<<Dict([name |-> Str("CETESB")])>>),
          Dict([name |-> Str("Springfield"), geo |-> List(<<Whole(45), Whole(73)>>)]),
          IaqiFull)

\* the raw readings handed to parse_city_data on its own
RawData ==
    {None, Str("Unknown station"), List(<< >>), EmptyDict}
        \cup {RawOf(a, Absent, at, c, i) :
                a \in {Absent, Whole(40)}, at \in AttrVals, c \in CityVals, i \in IaqiFew}
        \cup {RawOf(a, t, Absent, Absent, Absent) : a \in AqiVals, t \in TimeVals}
        \cup {RawOf(Whole(40), Absent, Absent, Absent, i) : i \in IaqiWide}
        \cup {FullRaw}

\* the raw readings the API returns in a run of main
MainData ==
    {FullRaw, Str("Unknown station"), EmptyDict}
        \cup {RawOf(a, Absent, Absent, Absent, Absent) : a \in AqiVals}
        \cup {RawOf(Whole(40), Absent, List(<<Dict([name |-> Str("CETESB")])>>),
                    Dict([name |-> Str("Springfield"), geo |-> List(<<None, Whole(73)>>)]),
                    IaqiOf([i \in 1..6 |-> IF i = 2 THEN Dict([v |-> Str("-")])
                                           ELSE Dict([v |-> Whole(12)])]))}

\* what requests.get may come back with
Responses ==
    {[net |-> "ok", http |-> 200, body |-> Dict([status |-> Str("ok"), data |-> d])] :
        d \in MainData}
        \cup {[net |-> "ok", http |-> 200, body |-> b] :
                b \in {Malformed, None, List(<< >>),
                       Dict([status |-> Str("ok"), data |-> Absent]),
                       Dict([status |-> Absent, data |-> FullRaw]),
                       Dict([status |-> Str("error"), data |-> Str("Unknown station")])}}
        \cup {[net |-> "ok", http |-> h, body |-> Dict([status |-> Str("ok"), data |-> FullRaw])] :
                h \in {404, 500}}
        \cup {[net |-> n, http |-> 0, body |-> Malformed] : n \in {"timeout", "refused"}}

\* values of os.getenv("WAQI_TOKEN")
Tokens == {None, Str(""), Str("demo-token")}

\* ------------------------------------------------------------------------ main
cities ==
    <<[label |-> "Sao Paulo", waqi_feed_path |-> "sao%20paulo"],
      [label |-> "Montreal", waqi_feed_path |-> "montreal"],
      [label |-> "Seattle", waqi_feed_path |-> "seattle"]>>

NoChart == [file |-> "", ylim |-> 0, bars |-> << >>]
NoArg == None
NoRes == None

\* the record main appends when fetch or parse raised
failure_summary_no_error(label, desc) ==
    [City |-> label, AQI |-> NaN, Category |-> "Unknown", ObservedTime |-> None,
     Station |-> None, ReportedCity |-> None, Lat |-> None, Lon |-> None]

failure_summary(label, desc) ==
    [City |-> label, AQI |-> NaN, Category |-> "Unknown", ObservedTime |-> None,
     Station |-> None, ReportedCity |-> None, Lat |-> None, Lon |-> None,
     Error |-> desc]

failure_pollutants(label) == [City |-> label]

\* one pass of the body of "for c in cities" on the reply resp: the pair of
\* records the pass appends
city_records_dropping(c, tok, resp) ==
    LET f == fetch_waqi_city(tok, c.waqi_feed_path, resp)
        r == parse_city_data(c.label, f.data)
    IN  IF f.ok /\ ~r.raised THEN <<<<r.summary>>, <<r.pollutants>>>>
        ELSE << << >>, << >> >>

city_records(c, tok, resp) ==
    LET f == fetch_waqi_city(tok, c.waqi_feed_path, resp)
        r == parse_city_data(c.label, f.data)
    IN  IF f.ok /\ ~r.raised THEN <<<<r.summary>>, <<r.pollutants>>>>
        ELSE <<<<failure_summary(c.label, IF f.ok THEN "parse_city_data raised" ELSE f.err)>>,
               <<failure_pollutants(c.label)>>>>

\* the index of the city the loop takes after the one at i
next_city_retrying(i, tok, resp) ==
    IF \/ fetch_waqi_city(tok, cities[i].waqi_feed_path, resp).ok
       \/ (fetched # << >> /\ fetched[Len(fetched)].path = cities[i].waqi_feed_path)
    THEN i + 1 ELSE i

next_city(i, tok, resp) == i + 1

\* "if not token": None and the empty string count as no token
token_missing_none_only(tok) == tok = None

token_missing(tok) == ~Truthy(tok)

Init ==
    /\ pc = "start"
    /\ token \in Tokens
    /\ idx = 0
    /\ summaries = << >>
    /\ pollutants = << >>
    /\ fetched = << >>
    /\ exitCode = -1
    /\ printed = << >>
    /\ chart = NoChart
    /\ arg = NoArg
    /\ res = NoRes

\* lines 154-159: the token is missing
main_no_token ==
    /\ pc = "start"
    /\ token_missing(token)
    /\ printed' = Append(printed, "ERROR: WAQI_TOKEN environment variable not set.")
    /\ exitCode' = 2
    /\ pc' = "done"
    /\ UNCHANGED <<token, idx, summaries, pollutants, fetched, chart, arg, res>>

\* lines 154-169: the token is there, the loop starts with empty sequences
main_begin ==
    /\ pc = "start"
    /\ ~token_missing(token)
    /\ idx' = 1
    /\ summaries' = << >>
    /\ pollutants' = << >>
    /\ pc' = "loop"
    /\ UNCHANGED <<token, fetched, exitCode, printed, chart, arg, res>>

\* lines 171-190: one iteration of the loop
main_city ==
    /\ pc = "loop"
    /\ idx <= Len(cities)
    /\ \E resp \in Responses :
         LET c == cities[idx]
             recs == city_records(c, token, resp)
         IN  /\ fetched' = Append(fetched, [path |-> c.waqi_feed_path, resp |-> resp])
             /\ summaries' = summaries \o recs[1]
             /\ pollutants' = pollutants \o recs[2]
             /\ idx' = next_city(idx, token, resp)
    /\ UNCHANGED <<pc, token, exitCode, printed, chart, arg, res>>

\* lines 192-206: the tables are printed and the chart is drawn and saved
main_report ==
    /\ pc = "loop"
    /\ idx > Len(cities)
    /\ \E p \in sort_values(summaries) :
         /\ chart' = plot_aqi_bar(summaries, p)
         /\ printed' = printed \o <<"=== Current AQI Summary ===",
                                    "=== Pollutants (IAQI components, if available) ===",
                                    "Saved chart: aqi_bar.png">>
         /\ exitCode' = 0
    /\ pc' = "done"
    /\ UNCHANGED <<token, idx, summaries, pollutants, fetched, arg, res>>

\* lines 192-203: the tables are printed, then savefig raises and the
\* exception leaves main: the interpreter exits with status 1
main_report_fails ==
    /\ pc = "loop"
    /\ idx > Len(cities)
    /\ printed' = printed \o <<"=== Current AQI Summary ===",
                               "=== Pollutants (IAQI components, if available) ===">>
    /\ exitCode' = 1
    /\ pc' = "done"
    /\ UNCHANGED <<token, idx, summaries, pollutants, fetched, chart, arg, res>>

Next == main_no_token \/ main_begin \/ main_city \/ main_report \/ main_report_fails

Spec == Init /\ [][Next]_vars

\* the program is one sequential thread: a step that can be taken is taken
LiveSpec == Spec /\ WF_vars(Next)

\* ------------------------------------------------- the functions on their own
IdleMain ==
    /\ token = None
    /\ idx = 0
    /\ summaries = << >>
    /\ pollutants = << >>
    /\ fetched = << >>
    /\ exitCode = -1
    /\ printed = << >>
    /\ chart = NoChart

MainUnchanged ==
    UNCHANGED <<token, idx, summaries, pollutants, fetched, exitCode, printed, chart>>

\* aqi_category_us applied to every float of the range
CatArgs == {Num(n) : n \in (0 - 5 * Scale)..(MaxAqi * Scale)}

InitCat == pc = "cat_in" /\ arg \in CatArgs /\ res = NoRes /\ IdleMain

call_aqi_category_us ==
    /\ pc = "cat_in"
    /\ res' = Str(aqi_category_us(arg))
    /\ pc' = "cat_out"
    /\ UNCHANGED arg
    /\ MainUnchanged

NextCat == call_aqi_category_us

SpecCat == InitCat /\ [][NextCat]_vars

\* parse_city_data applied to every raw reading of RawData
InitParse == pc = "parse_in" /\ arg \in RawData /\ res = NoRes /\ IdleMain

call_parse_city_data ==
    /\ pc = "parse_in"
    /\ res' = parse_city_data("Montreal", arg)
    /\ pc' = "parse_out"
    /\ UNCHANGED arg
    /\ MainUnchanged

NextParse == call_parse_city_data

SpecParse == InitParse /\ [][NextParse]_vars

\* plot_aqi_bar applied to every frame of up to MaxRows rows
RowNames == <<"A", "B", "C", "D", "E", "F">>

PlotAqi == {NaN, Whole(40), Whole(120), Num(120 * Scale + 1), Num(2 * Scale + 1)}

Frames ==
    UNION {{[i \in 1..n |-> [City |-> RowNames[i], AQI |-> a[i], Category |-> category_of(a[i])]] :
                a \in [1..n -> PlotAqi]} : n \in 1..MaxRows}

InitPlot == pc = "plot_in" /\ arg \in Frames /\ res = NoRes /\ IdleMain

call_plot_aqi_bar ==
    /\ pc = "plot_in"
    /\ \E p \in sort_values(arg) : res' = plot_aqi_bar(arg, p)
    /\ pc' = "plot_out"
    /\ UNCHANGED arg
    /\ MainUnchanged

NextPlot == call_plot_aqi_bar

SpecPlot == InitPlot /\ [][NextPlot]_vars

\* ====================================================================== claims
\* d[key] of a JSON object, None when d is no object or has no such key
Field(d, key) == IF d.k = "dict" /\ key \in DOMAIN d.v THEN d.v[key] ELSE None

\* the values float() turns into a number
Coercible(x) == x.k \in {"num", "bool"} \/ (x.k = "str" /\ x.v \in {"42", "151"})

\* the number a coercible value stands for
NumberOf(x) ==
    IF x.k = "num" THEN x
    ELSE IF x.k = "bool" THEN (IF x.v THEN Whole(1) ELSE Whole(0))
    ELSE IF x.v = "42" THEN Whole(42) ELSE Whole(151)

\* the label of the table of thresholds, for n in units of 1/Scale
ExpectedLabel(n) ==
    CASE n <= 50 * Scale -> "Good"
      [] 50 * Scale < n /\ n <= 100 * Scale -> "Moderate"
      [] 100 * Scale < n /\ n <= 150 * Scale -> "Unhealthy (Sensitive)"
      [] 150 * Scale < n /\ n <= 200 * Scale -> "Unhealthy"
      [] 200 * Scale < n /\ n <= 300 * Scale -> "Very Unhealthy"
      [] n > 300 * Scale -> "Hazardous"

Severity(label) ==
    CASE label = "Good" -> 1
      [] label = "Moderate" -> 2
      [] label = "Unhealthy (Sensitive)" -> 3
      [] label = "Unhealthy" -> 4
      [] label = "Very Unhealthy" -> 5
      [] label = "Hazardous" -> 6
      [] OTHER -> 0

\* a reply on which the fetch of a city fails: a transport fault, a non-2xx
\* status, a body that is no JSON, no object, has a status other than "ok"
\* or has no "data"
FailedReply(r) ==
    \/ r.net # "ok"
    \/ r.http \notin 200..299
    \/ r.body = Malformed
    \/ r.body.k # "dict"
    \/ Field(r.body, "status") # Str("ok")
    \/ "data" \notin DOMAIN r.body.v

Tables == {"=== Current AQI Summary ===",
           "=== Pollutants (IAQI components, if available) ==="}

\* C1: with the token present the two sequences always have the same
\* length, the number of cities attempted so far, the i-th record of each
\* carries the label of the i-th city, and at the end of the loop there is
\* exactly one record of each kind per city, whatever the outcomes were.
C1_OneRecordPerCityInOrder ==
    (Truthy(token) /\ pc \in {"loop", "done"}) =>
        /\ Len(summaries) = Len(fetched)
        /\ Len(pollutants) = Len(fetched)
        /\ Len(fetched) = idx - 1
        /\ \A i \in 1..Len(summaries) : summaries[i].City = cities[i].label
        /\ \A i \in 1..Len(pollutants) : pollutants[i].City = cities[i].label
        /\ (pc = "done" => Len(summaries) = Len(cities) /\ Len(pollutants) = Len(cities))

C1_Witness ==
    /\ pc = "done"
    /\ Len(summaries) = 3
    /\ Len(pollutants) = 3
    /\ "Error" \notin DOMAIN summaries[1]
    /\ "Error" \in DOMAIN summaries[2]
    /\ "Error" \notin DOMAIN summaries[3]

C3_MissingTokenExitTwo ==
    /\ (pc = "done" => (exitCode = 2 <=> ~Truthy(token)))
    /\ (pc # "done" => exitCode # 2)
    /\ (~Truthy(token) =>
            /\ fetched = << >>
            /\ summaries = << >>
            /\ pollutants = << >>
            /\ chart = NoChart
            /\ \A i \in 1..Len(printed) : printed[i] \notin Tables)

C3_Witness ==
    /\ pc = "done"
    /\ token = Str("")
    /\ exitCode = 2
    /\ fetched = << >>

\* C4: with the token present every run ends; the requests issued are at
\* every moment the feed paths of a prefix of the city list, one request per
\* city and in list order, at the end one for every city whichever of them
\* failed; and the run returns 0 when the chart was saved.
C4_OneAttemptPerCityThenExitZero ==
    /\ [](Truthy(token) =>
            /\ Len(fetched) <= Len(cities)
            /\ \A i \in 1..Len(fetched) : fetched[i].path = cities[i].waqi_feed_path)
    /\ []((pc = "done" /\ Truthy(token)) =>
            /\ Len(fetched) = Len(cities)
            /\ exitCode \in {0, 1}
            /\ (chart.file = "aqi_bar.png" <=> exitCode = 0))
    /\ <>(pc = "done")

C4_Witness ==
    /\ pc = "done"
    /\ exitCode = 0
    /\ Len(fetched) = 3
    /\ \A i \in 1..3 : FailedReply(fetched[i].resp)

\* C5: every SummaryRecord, parsed or degraded, has Category "Unknown" if
\* and only if its AQI is missing; the AQI of a parsed record is missing
\* exactly when the "aqi" field is absent, null or does not coerce to a
\* number, and is otherwise the coerced value; a record whose AQI is a
\* number has the label the thresholds give that number.
C5_UnknownIffAqiMissing ==
    \A i \in 1..Len(summaries) :
        LET s == summaries[i]
            r == fetched[i].resp
            raw == IF FailedReply(r) THEN None ELSE Field(r.body.v["data"], "aqi")
        IN  /\ (s.Category = "Unknown" <=> isna(s.AQI))
            /\ (notna(s.AQI) => s.Category = ExpectedLabel(s.AQI.v))
            /\ (FailedReply(r) => isna(s.AQI))
            /\ (~FailedReply(r) =>
                    IF Coercible(raw) THEN s.AQI = NumberOf(raw) ELSE isna(s.AQI))

C5_Witness ==
    /\ Len(summaries) = 3
    /\ "Error" \notin DOMAIN summaries[1]
    /\ Field(fetched[1].resp.body.v["data"], "aqi") = Str("-")
    /\ summaries[1].Category = "Unknown"
    /\ "Error" \in DOMAIN summaries[2]
    /\ summaries[2].Category = "Unknown"
    /\ summaries[3].Category = "Hazardous"

\* C6: aqi_category_us gives every number the label of the first inclusive
\* upper bound it does not exceed (50, 100, 150, 200, 300, else Hazardous);
\* a larger number never gets a less severe label; 50, 100, 150, 200 and
\* 300 get the label of the lower tier and the next float up the higher.
C6_ThresholdLabels ==
    pc = "cat_out" =>
        /\ res = Str(ExpectedLabel(arg.v))
        /\ Severity(res.v) \in 1..6
        /\ \A m \in CatArgs :
             m.v <= arg.v => Severity(aqi_category_us(m)) <= Severity(res.v)
        /\ (arg = Whole(50) => res = Str("Good"))
        /\ (arg = Num(50 * Scale + 1) => res = Str("Moderate"))
        /\ (arg = Whole(100) => res = Str("Moderate"))
        /\ (arg = Whole(150) => res = Str("Unhealthy (Sensitive)"))
        /\ (arg = Whole(200) => res = Str("Unhealthy"))
        /\ (arg = Whole(300) => res = Str("Very Unhealthy"))
        /\ (arg = Num(300 * Scale + 1) => res = Str("Hazardous"))

C6_Witness ==
    /\ pc = "cat_out"
    /\ arg = Whole(300)
    /\ res = Str("Very Unhealthy")

\* the Station/Area the rule of the claim gives
ExpectedStation(d) ==
    LET at == Field(d, "attributions")
        first == IF at.k = "list" /\ Len(at.v) >= 1 THEN at.v[1] ELSE None
        name == Field(first, "name")
    IN  IF name.k = "str" /\ name.v # "" THEN name
        ELSE Field(Field(d, "city"), "name")

\* C7: Station/Area is the name of the first element of "attributions"
\* whenever that name is present and non-empty, and "city.name" otherwise.
C7_StationFromFirstAttribution ==
    pc = "parse_out" => res.summary.Station = ExpectedStation(arg)

\* what the code does keep of the rule: a reading without a named first
\* attribution gets "city.name" as its Station/Area
C7_FallbackHolds ==
    (pc = "parse_out" /\ ExpectedStation(arg) = Field(Field(arg, "city"), "name")) =>
        res.summary.Station = Field(Field(arg, "city"), "name")

\* C8: the bars are the rows of the frame, each once, in descending order
\* of AQI with every row of missing AQI after all rows with a number; a bar
\* of missing AQI is labelled "n/a", any other with the integer nearest to
\* its AQI and its category; [A:40, B:missing, C:120] is drawn as C, A, B.
C8_BarsSortedAndLabelled ==
    pc = "plot_out" =>
        LET bars == res.bars
            n == Len(arg)
        IN  /\ Len(bars) = n
            /\ \A i \in 1..n : \E j \in 1..n : bars[j].City = arg[i].City
            /\ \A j \in 1..n : \E i \in 1..n :
                 /\ arg[i].City = bars[j].City
                 /\ bars[j].height = arg[i].AQI
                 /\ IF isna(arg[i].AQI) THEN bars[j].label.na
                    ELSE /\ ~bars[j].label.na
                         /\ 2 * bars[j].label.n * Scale - 2 * arg[i].AQI.v <= Scale
                         /\ 2 * arg[i].AQI.v - 2 * bars[j].label.n * Scale <= Scale
                         /\ bars[j].label.cat = arg[i].Category
            /\ \A i, j \in 1..n : i < j =>
                 /\ ~(isna(bars[i].height) /\ notna(bars[j].height))
                 /\ (notna(bars[i].height) /\ notna(bars[j].height)
                        => bars[i].height.v >= bars[j].height.v)
            /\ (/\ n = 3
                /\ arg[1].AQI = Whole(40)
                /\ arg[2].AQI = NaN
                /\ arg[3].AQI = Whole(120))
                   => <<bars[1].City, bars[2].City, bars[3].City>> = <<"C", "A", "B">>

C8_Witness ==
    /\ pc = "plot_out"
    /\ Len(arg) = 3
    /\ arg[1].AQI = Whole(40)
    /\ arg[2].AQI = NaN
    /\ arg[3].AQI = Whole(120)
    /\ res.bars[1].City = "C"
    /\ res.bars[1].label = [na |-> FALSE, n |-> 120, cat |-> "Unhealthy (Sensitive)"]
    /\ res.bars[3].label.na

\* C9: parse_city_data raises on no raw reading; each of the six pollutant
\* fields is the number "iaqi.<key>.v" coerces to when that value exists and
\* coerces, and is missing otherwise, whatever the other five are.
C9_ParseNeverRaises ==
    pc = "parse_out" =>
        /\ ~res.raised
        /\ res.summary.City = "Montreal"
        /\ res.pollutants.City = "Montreal"
        /\ DOMAIN res.pollutants = {"City", "pm25", "pm10", "o3", "no2", "so2", "co"}
        /\ \A i \in 1..Len(PollutantKeys) :
             LET key == PollutantKeys[i]
                 v == Field(Field(Field(arg, "iaqi"), key), "v")
             IN  IF Coercible(v) THEN res.pollutants[key] = NumberOf(v)
                 ELSE res.pollutants[key] \in {None, NaN}

C9_Witness ==
    /\ pc = "parse_out"
    /\ arg.k = "dict"
    /\ res.pollutants.pm25 = Whole(12)
    /\ res.pollutants.pm10 = None
    /\ Field(Field(Field(arg, "iaqi"), "pm10"), "v") = Str("-")
    /\ res.pollutants.o3 = Whole(12)

====
